---- MODULE Spec2Model ----
(***************************************************************************)
(* Model of esp32cam-pio/src/main.cpp: the enrollment of the one           *)
(* authorized face in setup() and the perpetual capture -> detect ->       *)
(* match -> decide -> report cycle of loop(), default build (all FEAT_*    *)
(* flags 1).  The camera, the detector/recogniser, the SD card, WiFi and   *)
(* SMTP are the environment: every call into them returns one of the       *)
(* results its interface allows, chosen nondeterministically.              *)
(***************************************************************************)
EXTENDS Integers, Sequences, FiniteSets, TLC

\* ---- bounds of the model ----
\* most face regions the detector returns for one image
MaxBoxes == 2

\* ---- program constants ----
MAX_ATTEMPTS == 3
\* score > 0.6f, scores in hundredths
MATCH_THRESHOLD == 60
\* delay(2000) at the end of loop()
CYCLE_DELAY == 2000
\* delay(500) after a failed esp_camera_fb_get()
CAPTURE_RETRY_DELAY == 500
\* delay(200) after a failed dl_matrix3du_alloc()
ALLOC_RETRY_DELAY == 200
\* delay(500) while the buzzer sounds
BUZZER_DELAY == 500
\* boxes->box[0]: the region enrollment aligns
ENROLL_BOX_INDEX == 0

\* similarity scores fr_recognize_face can return (hundredths):
\* below, exactly at and above the threshold
Scores == {55, 60, 90}

\* one detected face region: whether aligned_face_align succeeds on it and,
\* when it does, what fr_recognize_face returns for its aligned crop (a region
\* that does not align is never scored: score 0 stands for no score)
Box == [alignOk : {TRUE}, score : Scores] \cup {[alignOk |-> FALSE, score |-> 0]}

RECURSIVE SeqsUpTo(_, _)
SeqsUpTo(S, n) ==
    IF n = 0 THEN {<<>>}
    ELSE LET shorter == SeqsUpTo(S, n - 1)
         IN  shorter \cup {Append(s, x) : s \in {t \in shorter : Len(t) = n - 1}, x \in S}

\* what face_detect can return: NULL, or a box_array_t of 0..MaxBoxes boxes
BoxArrays ==
    {[isNull |-> TRUE, box |-> <<>>]}
        \cup {[isNull |-> FALSE, box |-> s] : s \in SeqsUpTo(Box, MaxBoxes)}

NullBoxes == [isNull |-> TRUE, box |-> <<>>]

\* ---- resources ----
ResNames == {"file", "buffer", "image", "boxes", "authorized_face",
             "fb", "image_matrix", "net_boxes", "aligned"}
CycleRes == {"fb", "image_matrix", "net_boxes", "aligned"}
EnrollRes == {"file", "buffer", "image", "boxes"}

Acquire(r, k) == [r EXCEPT ![k] = "held"]
Release(r, ks) == [k \in ResNames |-> IF k \in ks THEN "freed" ELSE r[k]]
\* releasing what is not held (never acquired, or already released)
BadFree(r, ks) == {<<"bad_free", k>> : k \in {x \in ks : r[x] # "held"}}
\* reading or writing what is not held
BadUse(r, ks) == {<<"bad_use", k>> : k \in {x \in ks : r[x] # "held"}}

\* ---- calls made, in order ----
Ev(op, a, b, ok) == [op |-> op, a |-> a, b |-> b, ok |-> ok]

VARIABLES
    pc,               \* position in setup() / loadAuthorizedFace() / loop()
    authorized_face,  \* the global pointer: "NULL" or "ptr"
    refBox,           \* index of the enrollment box aligned into *authorized_face, -1 if none
    loadResult,       \* return value of loadAuthorizedFace(): "pending", "true", "false"
    boxes,            \* box_array_t *boxes of loadAuthorizedFace()
    attemptCount,     \* static int attemptCount
    net_boxes,        \* box_array_t *net_boxes of loop()
    i,                \* index of the candidate loop
    face_detected,    \* locals of loop()
    face_recognized,
    accessStatus,
    intruderAlert,
    res,              \* state of every buffer/handle: "none", "held", "freed"
    faults,           \* releases and uses of something not held
    trace,            \* calls made since loadAuthorizedFace() / this loop() was entered
    decision,         \* the branch of the decision this cycle took: "none", "Granted", "Denied"
    countBefore,      \* attemptCount when this loop() was entered
    history,          \* the last MAX_ATTEMPTS cycles that took a decision
    skippedBefore     \* cycles were skipped since the last cycle that took a decision

vars == <<pc, authorized_face, refBox, loadResult, boxes, attemptCount, net_boxes, i,
          face_detected, face_recognized, accessStatus, intruderAlert, res, faults,
          trace, decision, countBefore, history, skippedBefore>>

enrollVars == <<authorized_face, refBox, loadResult, boxes>>
cycleVars == <<net_boxes, i, face_detected, face_recognized, accessStatus, intruderAlert>>
ghostVars == <<decision, countBefore, history>>

Init ==
    /\ pc = "open"
    /\ authorized_face = "NULL"
    /\ refBox = -1
    /\ loadResult = "pending"
    /\ boxes = NullBoxes
    /\ attemptCount = 0
    /\ net_boxes = NullBoxes
    /\ i = 0
    /\ face_detected = FALSE
    /\ face_recognized = FALSE
    /\ accessStatus = 0
    /\ intruderAlert = 0
    /\ res = [k \in ResNames |-> "none"]
    /\ faults = {}
    /\ trace = <<>>
    /\ decision = "none"
    /\ countBefore = 0
    /\ history = <<>>
    /\ skippedBefore = FALSE

\* ---- loadAuthorizedFace() ----

\* return false / return true; the local boxes pointer goes out of scope
ReturnFrom(ok) ==
    /\ loadResult' = IF ok THEN "true" ELSE "false"
    /\ boxes' = NullBoxes
    /\ pc' = "setup_end"

\* SD.open("/faces/user1.jpg")
OpenFile ==
    /\ pc = "open"
    /\ \E ok \in BOOLEAN :
          /\ trace' = Append(trace, Ev("SD.open", 0, 0, ok))
          /\ IF ok
             THEN /\ res' = Acquire(res, "file")
                  /\ pc' = "malloc"
                  /\ UNCHANGED <<loadResult, boxes>>
             ELSE /\ ReturnFrom(FALSE)
                  /\ UNCHANGED res
    /\ UNCHANGED <<authorized_face, refBox, attemptCount, cycleVars, faults, ghostVars>>
    /\ UNCHANGED skippedBefore

\* malloc(size), file.read, file.close
AllocBuffer ==
    /\ pc = "malloc"
    /\ \E ok \in BOOLEAN :
          /\ trace' = Append(trace, Ev("malloc", 0, 0, ok))
          /\ IF ok
             THEN /\ res' = Release(Acquire(res, "buffer"), {"file"})
                  /\ faults' = faults \cup BadUse(res, {"file"}) \cup BadFree(res, {"file"})
                  /\ pc' = "image_alloc"
                  /\ UNCHANGED <<loadResult, boxes>>
             ELSE /\ res' = Release(res, {"file"})
                  /\ faults' = faults \cup BadFree(res, {"file"})
                  /\ ReturnFrom(FALSE)
    /\ UNCHANGED <<authorized_face, refBox, attemptCount, cycleVars, ghostVars>>
    /\ UNCHANGED skippedBefore

\* dl_matrix3du_alloc(1, 320, 240, 3)
AllocImage ==
    /\ pc = "image_alloc"
    /\ \E ok \in BOOLEAN :
          /\ trace' = Append(trace, Ev("dl_matrix3du_alloc", 0, 0, ok))
          /\ IF ok
             THEN /\ res' = Acquire(res, "image")
                  /\ faults' = faults
                  /\ pc' = "decode"
                  /\ UNCHANGED <<loadResult, boxes>>
             ELSE /\ res' = Release(res, {"buffer"})
                  /\ faults' = faults \cup BadFree(res, {"buffer"})
                  /\ ReturnFrom(FALSE)
    /\ UNCHANGED <<authorized_face, refBox, attemptCount, cycleVars, ghostVars>>
    /\ UNCHANGED skippedBefore

\* fmt2rgb888(buffer, size, PIXFORMAT_JPEG, image->item), free(buffer)
Decode ==
    /\ pc = "decode"
    /\ \E ok \in BOOLEAN :
          /\ trace' = Append(trace, Ev("fmt2rgb888", 0, 0, ok))
          /\ IF ok
             THEN /\ res' = Release(res, {"buffer"})
                  /\ faults' = faults \cup BadUse(res, {"buffer", "image"})
                                      \cup BadFree(res, {"buffer"})
                  /\ pc' = "enroll_detect"
                  /\ UNCHANGED <<loadResult, boxes>>
             ELSE /\ res' = Release(res, {"image", "buffer"})
                  /\ faults' = faults \cup BadUse(res, {"buffer", "image"})
                                      \cup BadFree(res, {"image", "buffer"})
                  /\ ReturnFrom(FALSE)
    /\ UNCHANGED <<authorized_face, refBox, attemptCount, cycleVars, ghostVars>>
    /\ UNCHANGED skippedBefore

\* boxes = face_detect(image, &mtmn_config); if (!boxes || boxes->len == 0) ...
EnrollDetect ==
    /\ pc = "enroll_detect"
    /\ \E b \in BoxArrays :
          /\ trace' = Append(trace, Ev("face_detect", Len(b.box), 0, ~b.isNull))
          /\ IF b.isNull \/ Len(b.box) = 0
             THEN /\ res' = IF b.isNull
                            THEN Release(res, {"image"})
                            ELSE Release(Acquire(res, "boxes"), {"image", "boxes"})
                  /\ faults' = faults \cup BadUse(res, {"image"}) \cup BadFree(res, {"image"})
                  /\ ReturnFrom(FALSE)
             ELSE /\ res' = Acquire(res, "boxes")
                  /\ faults' = faults \cup BadUse(res, {"image"})
                  /\ pc' = "enroll_align"
                  /\ boxes' = b
                  /\ UNCHANGED loadResult
    /\ UNCHANGED <<authorized_face, refBox, attemptCount, cycleVars, ghostVars>>
    /\ UNCHANGED skippedBefore

\* the last region taken instead of the first
EnrollIndex_last(b) == Len(b.box) - 1

\* boxes->box[0]: the index of the region enrollment aligns
EnrollIndex(b) == ENROLL_BOX_INDEX

\* which region of the stored image becomes the reference
EnrollBox(b) == b.box[EnrollIndex(b) + 1]

\* the global left pointing at the freed buffer
PointerAfterAlignFailure_dangling(allocOk) == IF allocOk THEN "ptr" ELSE "NULL"

\* authorized_face after "Face alignment failed": NULL from aligned_face_alloc,
\* or set to NULL after aligned_face_free
PointerAfterAlignFailure(allocOk) == "NULL"

\* the reference buffer not freed on the failure path
ReleasedOnAlignFailure_leak(allocOk) == {"image", "boxes"}

\* what "Face alignment failed" releases before it returns
ReleasedOnAlignFailure(allocOk) ==
    IF allocOk THEN {"image", "boxes", "authorized_face"} ELSE {"image", "boxes"}

\* authorized_face = aligned_face_alloc(); aligned_face_align(image, boxes->box[0], ...)
EnrollAlign ==
    /\ pc = "enroll_align"
    /\ \E allocOk \in BOOLEAN :
          LET alignOk == EnrollBox(boxes).alignOk
              r1 == IF allocOk THEN Acquire(res, "authorized_face") ELSE res
              t1 == Append(trace, Ev("aligned_face_alloc", 0, 0, allocOk))
              t2 == IF allocOk
                    THEN Append(t1, Ev("aligned_face_align", EnrollIndex(boxes), 0, alignOk))
                    ELSE t1
              f1 == faults \cup (IF allocOk THEN BadUse(r1, {"image", "boxes"}) ELSE {})
          IN  /\ trace' = t2
              /\ IF allocOk /\ alignOk
                 THEN /\ authorized_face' = "ptr"
                      /\ refBox' = EnrollIndex(boxes)
                      /\ res' = Release(r1, {"image", "boxes"})
                      /\ faults' = f1 \cup BadFree(r1, {"image", "boxes"})
                      /\ ReturnFrom(TRUE)
                 ELSE /\ authorized_face' = PointerAfterAlignFailure(allocOk)
                      /\ refBox' = -1
                      /\ res' = Release(r1, ReleasedOnAlignFailure(allocOk))
                      /\ faults' = f1 \cup BadFree(r1, {"image", "boxes"})
                      /\ ReturnFrom(FALSE)
    /\ UNCHANGED <<attemptCount, cycleVars, ghostVars>>
    /\ UNCHANGED skippedBefore

\* setup(): if (!loadAuthorizedFace()) log "No authorized face loaded"; then loop() runs
SetupEnd ==
    /\ pc = "setup_end"
    /\ trace' = IF loadResult = "false"
                THEN Append(trace, Ev("log:No authorized face loaded", 0, 0, TRUE))
                ELSE trace
    /\ pc' = "loop"
    /\ UNCHANGED <<enrollVars, attemptCount, cycleVars, res, faults, ghostVars>>
    /\ UNCHANGED skippedBefore

\* ---- loop() ----

\* bool face_detected = (net_boxes && net_boxes->len > 0)
FaceDetected(nb) == ~nb.isNull /\ Len(nb.box) > 0

\* the test of the reference left out
CanMatch_noReference(fd, af) == fd

\* if (face_detected && authorized_face)
CanMatch(fd, af) == fd /\ af # "NULL"

\* the loop left one candidate early
InCandidateLoop_short(idx, nb) == idx < Len(nb.box) - 1

\* for (...; i < net_boxes->len; ...)
InCandidateLoop(idx, nb) == idx < Len(nb.box)

\* net_boxes->box[i]; an index outside the array reads whatever lies there
BoxAt(nb, idx) == IF idx >= 0 /\ idx < Len(nb.box) THEN {nb.box[idx + 1]} ELSE Box

\* the threshold itself accepted
Exceeds_orEqual(score) == score >= MATCH_THRESHOLD

\* if (score > 0.6f)
Exceeds(score) == score > MATCH_THRESHOLD

\* the reset of the granted branch left out
CountOnGranted_kept(c) == c

\* attemptCount = 0 of the granted branch
CountOnGranted(c) == 0

\* the increment left out
CountOnDenied_kept(c) == c

\* attemptCount++
CountOnDenied(c) == c + 1

\* the bound tested one too early
ReachedMax_early(c) == c >= MAX_ATTEMPTS - 1

\* the bound tested one too late
ReachedMax_late(c) == c > MAX_ATTEMPTS

\* if (attemptCount >= MAX_ATTEMPTS)
ReachedMax(c) == c >= MAX_ATTEMPTS

\* the reset after the alert left out
CountAfterAlert_kept(c, sent) == c

\* the reset made to depend on the delivery
CountAfterAlert_ifSent(c, sent) == IF sent THEN 0 ELSE c

\* (void)sendEmailAlert(); attemptCount = 0;
CountAfterAlert(c, sent) == 0

\* sendEmailAlert(): true only when smtp.connect and MailClient.sendMail both succeed
sendEmailAlert(connectOk, sendOk) == connectOk /\ sendOk

\* the two status arguments in the wrong order
sendToThingSpeak_swapped(status, alert, wifiUp, httpOk) ==
    IF wifiUp
    THEN <<Ev("sendToThingSpeak", alert, status, TRUE), Ev("http.GET", status, alert, httpOk)>>
    ELSE <<Ev("sendToThingSpeak", alert, status, TRUE)>>

\* sendToThingSpeak(dummyLat, dummyLng, accessStatus, intruderAlert): the call,
\* then the GET with field3 = intruderAlert and field4 = accessStatus when WiFi is up
sendToThingSpeak(status, alert, wifiUp, httpOk) ==
    IF wifiUp
    THEN <<Ev("sendToThingSpeak", status, alert, TRUE), Ev("http.GET", alert, status, httpOk)>>
    ELSE <<Ev("sendToThingSpeak", status, alert, TRUE)>>

\* the return left out: loop() goes on without a frame
AfterCaptureFailure_noReturn == "alloc_matrix"

\* where loop() continues after "Camera capture failed": it returns
AfterCaptureFailure == "loop"

\* the frame not returned on the early exit
ReleasedOnAllocFailure_none == {}

\* what the failed image-matrix allocation releases before it returns
ReleasedOnAllocFailure == {"fb"}

\* the return left out: loop() goes on without an image matrix
AfterAllocFailure_noReturn == "detect"

\* where loop() continues after "dl_matrix3du_alloc failed": it returns
AfterAllocFailure == "loop"

\* the reference released with the buffers of the cycle
ReleasedAtCycleEnd_withReference(nb) ==
    (IF nb.isNull THEN {} ELSE {"net_boxes"}) \cup {"image_matrix", "fb", "authorized_face"}

\* what the end of a cycle releases
ReleasedAtCycleEnd(nb) ==
    (IF nb.isNull THEN {} ELSE {"net_boxes"}) \cup {"image_matrix", "fb"}

NumCalls(t, op) == Cardinality({k \in 1..Len(t) : t[k].op = op})

LastN(s, n) == IF Len(s) <= n THEN s ELSE SubSeq(s, Len(s) - n + 1, Len(s))

\* a wrong initial value of the local
InitialRecognized_true == TRUE

\* bool face_recognized = false
InitialRecognized == FALSE

\* camera_fb_t *fb = esp_camera_fb_get(); if (!fb) { delay(500); return; }
Capture ==
    /\ pc = "loop"
    /\ \E ok \in BOOLEAN :
          LET r0 == [k \in ResNames |-> IF k \in CycleRes THEN "none" ELSE res[k]]
              t0 == <<Ev("esp_camera_fb_get", 0, 0, ok)>>
          IN  IF ok
              THEN /\ res' = Acquire(r0, "fb")
                   /\ skippedBefore' = (decision = "none" /\ skippedBefore)
                   /\ trace' = t0
                   /\ pc' = "alloc_matrix"
              ELSE /\ res' = r0
                   /\ skippedBefore' = TRUE
                   /\ trace' = Append(t0, Ev("delay", CAPTURE_RETRY_DELAY, 0, TRUE))
                   /\ pc' = AfterCaptureFailure
    /\ net_boxes' = NullBoxes
    /\ i' = 0
    /\ face_detected' = FALSE
    /\ face_recognized' = FALSE
    /\ accessStatus' = 0
    /\ intruderAlert' = 0
    /\ decision' = "none"
    /\ countBefore' = attemptCount
    /\ UNCHANGED <<enrollVars, attemptCount, faults, history>>

\* dl_matrix3du_alloc(1, fb->width, fb->height, 3); on NULL: fb returned, delay(200), return
AllocMatrix ==
    /\ pc = "alloc_matrix"
    /\ \E ok \in BOOLEAN :
          /\ IF ok
             THEN /\ res' = Acquire(res, "image_matrix")
                  /\ faults' = faults \cup BadUse(res, {"fb"})
                  /\ trace' = Append(trace, Ev("dl_matrix3du_alloc", 0, 0, ok))
                  /\ pc' = "detect"
                  /\ skippedBefore' = skippedBefore
             ELSE /\ res' = Release(res, ReleasedOnAllocFailure)
                  /\ faults' = faults \cup BadUse(res, {"fb"})
                                      \cup BadFree(res, ReleasedOnAllocFailure)
                  /\ trace' = trace \o <<Ev("dl_matrix3du_alloc", 0, 0, ok),
                                         Ev("delay", ALLOC_RETRY_DELAY, 0, TRUE)>>
                  /\ pc' = AfterAllocFailure
                  /\ skippedBefore' = TRUE
    /\ UNCHANGED <<enrollVars, attemptCount, cycleVars, ghostVars>>

\* fmt2rgb888(...); net_boxes = face_detect(image_matrix, &mtmn_config); the locals
Detect ==
    /\ pc = "detect"
    /\ \E b \in BoxArrays :
          /\ net_boxes' = b
          /\ face_detected' = FaceDetected(b)
          /\ res' = IF b.isNull THEN res ELSE Acquire(res, "net_boxes")
          /\ trace' = trace \o <<Ev("fmt2rgb888", 0, 0, TRUE),
                                 Ev("face_detect", Len(b.box), 0, ~b.isNull)>>
    /\ face_recognized' = InitialRecognized
    /\ accessStatus' = 0
    /\ intruderAlert' = 0
    /\ faults' = faults \cup BadUse(res, {"fb", "image_matrix"})
    /\ pc' = "match"
    /\ UNCHANGED <<enrollVars, attemptCount, i, ghostVars>>
    /\ UNCHANGED skippedBefore

\* if (face_detected && authorized_face) { aligned = aligned_face_alloc(); if (aligned) ...
MatchBegin ==
    /\ pc = "match"
    /\ IF CanMatch(face_detected, authorized_face)
       THEN \E ok \in BOOLEAN :
               /\ trace' = Append(trace, Ev("aligned_face_alloc", 0, 0, ok))
               /\ IF ok
                  THEN /\ res' = Acquire(res, "aligned")
                       /\ pc' = "for"
                  ELSE /\ res' = res
                       /\ pc' = "decide"
       ELSE /\ pc' = "decide"
            /\ UNCHANGED <<trace, res>>
    /\ i' = 0
    /\ UNCHANGED <<enrollVars, attemptCount, net_boxes, face_detected, face_recognized,
                   accessStatus, intruderAlert, faults, ghostVars>>
    /\ UNCHANGED skippedBefore

\* one pass of the candidate loop: align box[i], score it, break when it exceeds
ForStep ==
    /\ pc = "for"
    /\ IF InCandidateLoop(i, net_boxes)
       THEN \E b \in BoxAt(net_boxes, i) :
               LET aligns == Ev("aligned_face_align", i, 0, b.alignOk)
                   scores == Ev("fr_recognize_face", i, b.score, TRUE)
               IN  /\ trace' = IF b.alignOk THEN trace \o <<aligns, scores>>
                                            ELSE Append(trace, aligns)
                   /\ faults' = faults
                          \cup BadUse(res, {"image_matrix", "net_boxes", "aligned"})
                          \cup (IF b.alignOk THEN BadUse(res, {"authorized_face"}) ELSE {})
                   /\ IF b.alignOk /\ Exceeds(b.score)
                      THEN /\ face_recognized' = TRUE
                           /\ i' = i
                           /\ pc' = "free_aligned"
                      ELSE /\ face_recognized' = face_recognized
                           /\ i' = i + 1
                           /\ pc' = "for"
       ELSE /\ pc' = "free_aligned"
            /\ UNCHANGED <<trace, faults, face_recognized, i>>
    /\ UNCHANGED <<enrollVars, attemptCount, net_boxes, face_detected, accessStatus,
                   intruderAlert, res, ghostVars>>
    /\ UNCHANGED skippedBefore

\* aligned_face_free(aligned)
FreeAligned ==
    /\ pc = "free_aligned"
    /\ res' = Release(res, {"aligned"})
    /\ faults' = faults \cup BadFree(res, {"aligned"})
    /\ trace' = Append(trace, Ev("aligned_face_free", 0, 0, TRUE))
    /\ pc' = "decide"
    /\ UNCHANGED <<enrollVars, attemptCount, cycleVars, ghostVars>>
    /\ UNCHANGED skippedBefore

\* if (face_recognized) { accessStatus = 1; attemptCount = 0; }
Granted ==
    /\ pc = "decide"
    /\ face_recognized
    /\ accessStatus' = 1
    /\ attemptCount' = CountOnGranted(attemptCount)
    /\ decision' = "Granted"
    /\ trace' = trace \o <<Ev("lcd:Access Granted", 0, 0, TRUE),
                           Ev("attemptCount=", CountOnGranted(attemptCount), 0, TRUE)>>
    /\ pc' = "telemetry"
    /\ UNCHANGED <<enrollVars, net_boxes, i, face_detected, face_recognized, intruderAlert,
                   res, faults, countBefore, history>>
    /\ UNCHANGED skippedBefore

\* else { buzzer for 500 ms; attemptCount++; ...
Denied ==
    /\ pc = "decide"
    /\ ~face_recognized
    /\ attemptCount' = CountOnDenied(attemptCount)
    /\ decision' = "Denied"
    /\ trace' = trace \o <<Ev("lcd:Access Denied", 0, 0, TRUE),
                           Ev("delay", BUZZER_DELAY, 0, TRUE),
                           Ev("attemptCount=", CountOnDenied(attemptCount), 0, TRUE)>>
    /\ pc' = "check_max"
    /\ UNCHANGED <<enrollVars, cycleVars, res, faults, countBefore, history>>
    /\ UNCHANGED skippedBefore

\* if (attemptCount >= MAX_ATTEMPTS) { intruderAlert = 1; ...
CheckMax ==
    /\ pc = "check_max"
    /\ IF ReachedMax(attemptCount)
       THEN /\ intruderAlert' = 1
            /\ pc' = "alert"
       ELSE /\ intruderAlert' = intruderAlert
            /\ pc' = "telemetry"
    /\ UNCHANGED <<enrollVars, attemptCount, net_boxes, i, face_detected, face_recognized,
                   accessStatus, res, faults, trace, ghostVars>>
    /\ UNCHANGED skippedBefore

\* the telemetry report made before the alert is sent and the counter reset
Alert_reportFirst ==
    /\ pc = "alert"
    /\ \E connectOk \in BOOLEAN, sendOk \in BOOLEAN, wifiUp \in BOOLEAN, httpOk \in BOOLEAN :
          LET sent == sendEmailAlert(connectOk, sendOk)
          IN  /\ attemptCount' = CountAfterAlert(attemptCount, sent)
              /\ trace' = trace \o sendToThingSpeak(accessStatus, intruderAlert, wifiUp, httpOk)
                                \o <<Ev("sendEmailAlert", 0, 0, sent),
                                     Ev("attemptCount=", CountAfterAlert(attemptCount, sent),
                                        0, TRUE)>>
    /\ pc' = "release"
    /\ UNCHANGED <<enrollVars, cycleVars, res, faults, ghostVars>>
    /\ UNCHANGED skippedBefore

\* (void)sendEmailAlert(); attemptCount = 0; }
Alert ==
    /\ pc = "alert"
    /\ \E connectOk \in BOOLEAN, sendOk \in BOOLEAN :
          LET sent == sendEmailAlert(connectOk, sendOk)
          IN  /\ attemptCount' = CountAfterAlert(attemptCount, sent)
              /\ trace' = trace \o <<Ev("sendEmailAlert", 0, 0, sent),
                                     Ev("attemptCount=", CountAfterAlert(attemptCount, sent),
                                        0, TRUE)>>
    /\ pc' = "telemetry"
    /\ UNCHANGED <<enrollVars, cycleVars, res, faults, ghostVars>>
    /\ UNCHANGED skippedBefore

\* sendToThingSpeak(dummyLat, dummyLng, accessStatus, intruderAlert)
Telemetry ==
    /\ pc = "telemetry"
    /\ \E wifiUp \in BOOLEAN, httpOk \in BOOLEAN :
          trace' = trace \o sendToThingSpeak(accessStatus, intruderAlert, wifiUp, httpOk)
    /\ pc' = "release"
    /\ UNCHANGED <<enrollVars, attemptCount, cycleVars, res, faults, ghostVars>>
    /\ UNCHANGED skippedBefore

\* if (net_boxes) { dl_lib_free(...); } dl_matrix3du_free(image_matrix); esp_camera_fb_return(fb)
ReleaseAll ==
    /\ pc = "release"
    /\ res' = Release(res, ReleasedAtCycleEnd(net_boxes))
    /\ faults' = faults \cup BadFree(res, ReleasedAtCycleEnd(net_boxes))
    /\ trace' = Append(trace, Ev("release", 0, 0, TRUE))
    /\ pc' = "delay"
    /\ UNCHANGED <<enrollVars, attemptCount, cycleVars, ghostVars>>
    /\ UNCHANGED skippedBefore

\* delay(2000); loop() returns
Delay ==
    /\ pc = "delay"
    /\ trace' = Append(trace, Ev("delay", CYCLE_DELAY, 0, TRUE))
    /\ history' = LastN(Append(history,
                            [decision |-> decision, before |-> countBefore,
                             after |-> attemptCount, intruderAlert |-> intruderAlert,
                             alerts |-> NumCalls(trace, "sendEmailAlert"),
                             faces |-> face_detected]),
                        MAX_ATTEMPTS)
    /\ pc' = "loop"
    /\ UNCHANGED <<enrollVars, attemptCount, cycleVars, res, faults, decision, countBefore>>
    /\ UNCHANGED skippedBefore

Next ==
    \/ OpenFile
    \/ AllocBuffer
    \/ AllocImage
    \/ Decode
    \/ EnrollDetect
    \/ EnrollAlign
    \/ SetupEnd
    \/ Capture
    \/ AllocMatrix
    \/ Detect
    \/ MatchBegin
    \/ ForStep
    \/ FreeAligned
    \/ Granted
    \/ Denied
    \/ CheckMax
    \/ Alert
    \/ Telemetry
    \/ ReleaseAll
    \/ Delay

Spec == Init /\ [][Next]_vars

\* ---- properties ----

\* the trace belongs to a pass of loop() (not to the enrollment)
InCycle == trace # <<>> /\ trace[1].op = "esp_camera_fb_get"
\* loop() has returned: the state at a cycle boundary, after at least one cycle
CycleDone == pc = "loop" /\ InCycle
Called(op) == NumCalls(trace, op) > 0
HasEvent(e) == \E k \in 1..Len(trace) : trace[k] = e
LastEvent == trace[Len(trace)]
CaptureFailed == InCycle /\ ~trace[1].ok
Detected == InCycle /\ Called("face_detect")

\* C1: attemptCount never exceeds MAX_ATTEMPTS; when loop() has returned it is
\* in 0..MAX_ATTEMPTS-1, and a cycle that raised it to MAX_ATTEMPTS has reset it
\* to 0 by the time it ends.
C1_CounterBounded ==
    /\ attemptCount \in 0..MAX_ATTEMPTS
    /\ pc = "loop" => attemptCount \in 0..(MAX_ATTEMPTS - 1)
    /\ (CycleDone /\ HasEvent(Ev("attemptCount=", MAX_ATTEMPTS, 0, TRUE))) => attemptCount = 0

C1_Witness ==
    /\ CycleDone
    /\ decision = "Denied"
    /\ HasEvent(Ev("attemptCount=", MAX_ATTEMPTS, 0, TRUE))
    /\ attemptCount = 0

\* C2: a run of N consecutive Denied decisions that starts with the counter at 0
\* leaves the counter at N and sends no alert while N < MAX_ATTEMPTS; the
\* MAX_ATTEMPTS-th one sends exactly one alert and leaves the counter at 0.
C2_DenialRun ==
    \A j \in 1..Len(history) : \A k \in j..Len(history) :
        (history[j].before = 0 /\ \A m \in j..k : history[m].decision = "Denied")
            => IF k - j + 1 < MAX_ATTEMPTS
               THEN /\ history[k].after = k - j + 1
                    /\ history[k].alerts = 0
                    /\ history[k].intruderAlert = 0
               ELSE /\ history[k].after = 0
                    /\ history[k].alerts = 1
                    /\ history[k].intruderAlert = 1

C2_Witness ==
    /\ pc = "loop"
    /\ Len(history) = MAX_ATTEMPTS
    /\ history[1].before = 0
    /\ \A m \in 1..MAX_ATTEMPTS : history[m].decision = "Denied" /\ ~history[m].faces
    /\ history[MAX_ATTEMPTS].alerts = 1
    /\ attemptCount = 0

\* C3: once a cycle has taken the granted branch the counter is 0, whatever it
\* was when the cycle began, and the cycle raises no alert and sends no e-mail.
C3_GrantedResets ==
    decision = "Granted"
        => /\ attemptCount = 0
           /\ intruderAlert = 0
           /\ accessStatus = 1
           /\ ~Called("sendEmailAlert")

C3_Witness ==
    /\ CycleDone
    /\ decision = "Granted"
    /\ countBefore = MAX_ATTEMPTS - 1
    /\ attemptCount = 0

\* a detection that, aligned into the cycle's aligned-face buffer, matches
Matches(b) == b.alignOk /\ b.score > MATCH_THRESHOLD
AlignedBufferObtained == HasEvent(Ev("aligned_face_alloc", 0, 0, TRUE))
\* what the cycle was given: the reference, the buffer, the detections
MatchFound ==
    /\ authorized_face # "NULL"
    /\ AlignedBufferObtained
    /\ \E k \in 1..Len(net_boxes.box) : Matches(net_boxes.box[k])

\* C4: the decision of a cycle is Granted exactly when the reference face is
\* present and some detection, anywhere in the detector's sequence, aligns
\* (into the buffer obtained for the cycle) and scores strictly above the
\* threshold; in every other case it is Denied.
C4_GrantedIffMatch ==
    (InCycle /\ decision # "none")
        => (decision = "Granted" <=> MatchFound)

\* detections [A, B] with similarity(A) = 0.55 and similarity(B) = 0.9
C4_Witness ==
    /\ CycleDone
    /\ Len(net_boxes.box) = 2
    /\ net_boxes.box[1] = [alignOk |-> TRUE, score |-> 55]
    /\ net_boxes.box[2] = [alignOk |-> TRUE, score |-> 90]
    /\ decision = "Granted"

\* C5: when the detector returned NULL or an empty array, the cycle never takes
\* the granted branch, ends Denied, and calls neither aligned_face_align nor
\* fr_recognize_face.
C5_NoDetectionDenied ==
    (Detected /\ (net_boxes.isNull \/ Len(net_boxes.box) = 0))
        => /\ decision # "Granted"
           /\ ~Called("aligned_face_align")
           /\ ~Called("fr_recognize_face")
           /\ pc = "loop" => decision = "Denied"

C5_Witness ==
    /\ CycleDone
    /\ Detected
    /\ ~net_boxes.isNull
    /\ Len(net_boxes.box) = 0
    /\ authorized_face # "NULL"
    /\ decision = "Denied"

\* C6: after loadAuthorizedFace() returned false no cycle takes the granted
\* branch, every cycle that decides is Denied, and no cycle allocates an
\* aligned-face buffer, aligns or scores a detection.
C6_NoReferenceDenied ==
    (loadResult = "false" /\ InCycle)
        => /\ decision # "Granted"
           /\ ~Called("aligned_face_alloc")
           /\ ~Called("aligned_face_align")
           /\ ~Called("fr_recognize_face")
           /\ (pc = "loop" /\ Detected) => decision = "Denied"

\* the stored image could not be opened; a face that would match is in the frame
C6_Witness ==
    /\ CycleDone
    /\ loadResult = "false"
    /\ res["file"] = "none"
    /\ \E k \in 1..Len(net_boxes.box) : Matches(net_boxes.box[k])
    /\ decision = "Denied"

\* the e-mail alert went out in this cycle
AlertFired == Called("sendEmailAlert")

\* C7: sendToThingSpeak is never called twice in a cycle; a cycle that has
\* returned called it once if it took a decision and not at all if it was
\* skipped; its accessStatus is 1 iff the decision was Granted, its
\* intruderAlert 1 iff the alert fired in that cycle, and the request carries
\* them as field4 and field3.
C7_TelemetryOncePerDecision ==
    /\ InCycle => NumCalls(trace, "sendToThingSpeak") <= 1
    /\ CycleDone =>
          IF decision = "none"
          THEN ~Called("sendToThingSpeak")
          ELSE /\ NumCalls(trace, "sendToThingSpeak") = 1
               /\ HasEvent(Ev("sendToThingSpeak",
                              IF decision = "Granted" THEN 1 ELSE 0,
                              IF AlertFired THEN 1 ELSE 0, TRUE))
               /\ \A k \in 1..Len(trace) :
                     trace[k].op = "http.GET"
                        => /\ trace[k].a = (IF AlertFired THEN 1 ELSE 0)
                           /\ trace[k].b = (IF decision = "Granted" THEN 1 ELSE 0)

C7_Witness ==
    /\ CycleDone
    /\ decision = "Denied"
    /\ AlertFired
    /\ HasEvent(Ev("sendToThingSpeak", 0, 1, TRUE))
    /\ HasEvent(Ev("http.GET", 1, 0, TRUE))

\* the counter a cycle leaves behind, from the counter it found and its decision
Tracker(c, d) ==
    IF d = "Granted" THEN 0
    ELSE IF d = "Denied" THEN (IF c + 1 >= MAX_ATTEMPTS THEN 0 ELSE c + 1)
    ELSE c

\* C8: sendEmailAlert is called at most once in a cycle, the counter is 0 as
\* soon as it has returned, whether it reported success or failure, and the
\* decision and the counter a cycle leaves behind are determined by what the
\* cycle was given (reference, buffers, detections) and the counter it found,
\* whatever the e-mail and the telemetry request did.
C8_SideEffectsDoNotSteer ==
    /\ InCycle => NumCalls(trace, "sendEmailAlert") <= 1
    /\ (InCycle /\ AlertFired) => attemptCount = 0
    /\ CycleDone =>
          /\ decision = (IF ~Detected THEN "none"
                         ELSE IF MatchFound THEN "Granted" ELSE "Denied")
          /\ attemptCount = Tracker(countBefore, decision)

\* the e-mail failed and the telemetry request was not even made
C8_Witness ==
    /\ CycleDone
    /\ HasEvent(Ev("sendEmailAlert", 0, 0, FALSE))
    /\ Called("sendToThingSpeak")
    /\ ~Called("http.GET")
    /\ attemptCount = 0

\* C9: nothing is released or used that is not held, and when loop() has
\* returned none of the cycle's buffers is still held: each one the cycle
\* acquired has been released.
C9_ResourcesReleased ==
    /\ faults = {}
    /\ pc = "loop" => \A k \in CycleRes : res[k] # "held"
    /\ CycleDone =>
          /\ trace[1].ok => res["fb"] = "freed"
          /\ HasEvent(Ev("dl_matrix3du_alloc", 0, 0, TRUE)) => res["image_matrix"] = "freed"
          /\ (Detected /\ ~net_boxes.isNull) => res["net_boxes"] = "freed"
          /\ AlignedBufferObtained => res["aligned"] = "freed"

\* granted by the first of two candidates: the loop was left by the break
C9_Witness ==
    /\ CycleDone
    /\ decision = "Granted"
    /\ Len(net_boxes.box) = 2
    /\ i = 0
    /\ \A k \in CycleRes : res[k] = "freed"

\* C10 as stated: a cycle whose capture failed does nothing else and ends with
\* the 2000 ms delay of a cycle.
C10_Original ==
    (CycleDone /\ CaptureFailed)
        => /\ decision = "none"
           /\ attemptCount = countBefore
           /\ ~Called("face_detect")
           /\ ~Called("sendEmailAlert")
           /\ ~Called("sendToThingSpeak")
           /\ LastEvent = Ev("delay", CYCLE_DELAY, 0, TRUE)

\* C10 amended: a cycle whose capture failed does nothing else; it waits 500 ms
\* and returns, without the 2000 ms delay of a cycle.
C10_CaptureFailureSkips ==
    (CycleDone /\ CaptureFailed)
        => /\ decision = "none"
           /\ attemptCount = countBefore
           /\ trace = <<Ev("esp_camera_fb_get", 0, 0, FALSE),
                        Ev("delay", CAPTURE_RETRY_DELAY, 0, TRUE)>>

C10_Witness ==
    /\ CycleDone
    /\ CaptureFailed
    /\ countBefore = MAX_ATTEMPTS - 1
    /\ attemptCount = MAX_ATTEMPTS - 1
    /\ LastEvent = Ev("delay", CAPTURE_RETRY_DELAY, 0, TRUE)

MatrixAllocFailed == InCycle /\ HasEvent(Ev("dl_matrix3du_alloc", 0, 0, FALSE))
AlignedAllocFailed == InCycle /\ HasEvent(Ev("aligned_face_alloc", 0, 0, FALSE))

\* C11 as stated: a cycle in which dl_matrix3du_alloc or aligned_face_alloc
\* returned NULL takes no decision, leaves attemptCount as it found it, sends no
\* alert and no telemetry.
C11_AllocationFailureSkips ==
    (CycleDone /\ (MatrixAllocFailed \/ AlignedAllocFailed))
        => /\ decision = "none"
           /\ attemptCount = countBefore
           /\ ~Called("sendEmailAlert")
           /\ ~Called("sendToThingSpeak")

\* C12: a cycle that got its frame and its image matrix runs exactly one of the
\* two branches of the decision; no cycle calls sendEmailAlert twice, and a
\* cycle that calls it is a Denied one whose increment brought attemptCount to
\* MAX_ATTEMPTS.
C12_OneDecisionOneAlert ==
    /\ InCycle =>
          /\ NumCalls(trace, "lcd:Access Granted") + NumCalls(trace, "lcd:Access Denied") <= 1
          /\ NumCalls(trace, "sendEmailAlert") <= 1
          /\ Called("lcd:Access Granted") <=> decision = "Granted"
          /\ Called("lcd:Access Denied") <=> decision = "Denied"
          /\ Called("sendEmailAlert")
                => /\ decision = "Denied"
                   /\ intruderAlert = 1
                   /\ HasEvent(Ev("attemptCount=", MAX_ATTEMPTS, 0, TRUE))
    /\ (CycleDone /\ Detected)
          => NumCalls(trace, "lcd:Access Granted") + NumCalls(trace, "lcd:Access Denied") = 1
    /\ (CycleDone /\ ~Detected) => decision = "none"

\* a cycle with a face in the frame that ends Denied and alerts
C12_Witness ==
    /\ CycleDone
    /\ face_detected
    /\ Called("lcd:Access Denied")
    /\ ~Called("lcd:Access Granted")
    /\ NumCalls(trace, "sendEmailAlert") = 1

\* the positions of loop(); the others belong to setup()
LoopPcs == {"loop", "alloc_matrix", "detect", "match", "for", "free_aligned", "decide",
            "check_max", "alert", "telemetry", "release", "delay"}
Returned == loadResult # "pending"

\* C13: no step of loop() changes the pointer authorized_face, the buffer it
\* points to (allocated or freed) or the face aligned into it.
ReferenceKept ==
    /\ authorized_face' = authorized_face
    /\ refBox' = refBox
    /\ res'["authorized_face"] = res["authorized_face"]

C13_ReferenceUntouched == [][(pc \in LoopPcs) => ReferenceKept]_vars

\* cycles have run, one of them scored a candidate against the reference
C13_Witness ==
    /\ CycleDone
    /\ Len(history) = MAX_ATTEMPTS
    /\ Called("fr_recognize_face")
    /\ authorized_face = "ptr"
    /\ res["authorized_face"] = "held"
    /\ refBox = ENROLL_BOX_INDEX

\* C14: loadAuthorizedFace() returns true with the reference installed and
\* false with authorized_face NULL and no reference buffer held; whatever it
\* returns, setup() goes on and loop() runs.
C14_InstalledIffSuccess ==
    /\ loadResult = "true"
          => /\ authorized_face = "ptr"
             /\ res["authorized_face"] = "held"
             /\ refBox >= 0
    /\ loadResult = "false"
          => /\ authorized_face = "NULL"
             /\ res["authorized_face"] # "held"
             /\ refBox = -1
    /\ Returned <=> pc \in LoopPcs \cup {"setup_end"}
    /\ pc = "setup_end" => ENABLED SetupEnd
    /\ pc \in LoopPcs => ENABLED Next

\* the alignment failed at enrollment and a cycle has run all the same
C14_Witness ==
    /\ loadResult = "false"
    /\ res["authorized_face"] = "freed"
    /\ CycleDone
    /\ decision = "Denied"

\* C15: enrollment fails when the detector finds no region; otherwise the one
\* region it aligns is the first in detection order, and it succeeds exactly
\* when the reference buffer is allocated and that first region aligns,
\* whatever the other regions are.
EnrollmentStep ==
    /\ (pc = "enroll_detect" /\ LastEvent'.a = 0)
          => (loadResult' = "false" /\ authorized_face' = "NULL")
    /\ pc = "enroll_align"
          => /\ Len(boxes.box) >= 1
             /\ \A k \in 1..Len(trace') :
                   trace'[k].op = "aligned_face_align" => trace'[k].a = 0
             /\ loadResult' = "true"
                   <=> (boxes.box[1].alignOk /\ LastEvent'.op = "aligned_face_align")
             /\ loadResult' = "true" => refBox' = 0

C15_FirstRegionEnrolled == [][EnrollmentStep]_vars

\* two regions in the stored image, the first one enrolled
C15_Witness ==
    /\ pc = "setup_end"
    /\ HasEvent(Ev("face_detect", 2, 0, TRUE))
    /\ HasEvent(Ev("aligned_face_align", 0, 0, TRUE))
    /\ loadResult = "true"
    /\ refBox = 0

\* the stage of a cycle a call belongs to: capture, detect, match, decide and
\* count, alert, report, release, fixed delay; 0 for what has no fixed stage
Stage(e) ==
    IF e.op = "esp_camera_fb_get" THEN 1
    ELSE IF e.op \in {"dl_matrix3du_alloc", "fmt2rgb888", "face_detect"} THEN 2
    ELSE IF e.op \in {"aligned_face_alloc", "aligned_face_align", "fr_recognize_face",
                      "aligned_face_free"} THEN 3
    ELSE IF e.op \in {"lcd:Access Granted", "lcd:Access Denied"} THEN 4
    ELSE IF e.op = "sendEmailAlert" THEN 5
    ELSE IF e.op \in {"sendToThingSpeak", "http.GET"} THEN 6
    ELSE IF e.op = "release" THEN 7
    ELSE IF e.op = "delay" /\ e.a = CYCLE_DELAY THEN 8
    ELSE 0
StagesIn(t) == {Stage(t[k]) : k \in 1..Len(t)}
HasStage(n) == n > 0
\* the stages of the calls that have one, in the order of the calls
StagesOf(t) == SelectSeq([k \in 1..Len(t) |-> Stage(t[k])], HasStage)

\* C16: the calls of a cycle come in the order capture, detect, match, decision
\* and counter update, alert, telemetry, release, fixed delay; the e-mail comes
\* right after the increment that reached MAX_ATTEMPTS and right before the
\* reset, every write of the counter precedes the telemetry call, a cycle that
\* decided went through capture, detect, decision, telemetry and ended with the
\* 2000 ms delay, and no second capture starts before loop() has returned.
C16_StepsInOrder ==
    InCycle =>
        /\ LET st == StagesOf(trace)
           IN  \A k \in 1..(Len(st) - 1) : st[k] <= st[k + 1]
        /\ NumCalls(trace, "esp_camera_fb_get") = 1
        /\ \A k \in 1..Len(trace) :
              /\ trace[k].op = "sendEmailAlert"
                    => /\ k > 1 /\ k < Len(trace)
                       /\ trace[k - 1] = Ev("attemptCount=", MAX_ATTEMPTS, 0, TRUE)
                       /\ trace[k + 1] = Ev("attemptCount=", 0, 0, TRUE)
              /\ trace[k].op = "attemptCount="
                    => /\ \A j \in 1..k : Stage(trace[j]) <= 5
                       /\ \E j \in 1..k : Stage(trace[j]) = 4
        /\ Called("sendToThingSpeak")
              => (decision # "none" /\ attemptCount = Tracker(countBefore, decision))
        /\ (pc = "loop" /\ decision # "none")
              => /\ {1, 2, 4, 6, 7, 8} \subseteq StagesIn(trace)
                 /\ LastEvent = Ev("delay", CYCLE_DELAY, 0, TRUE)

\* a cycle that went through every stage
C16_Witness ==
    /\ CycleDone
    /\ StagesIn(trace) = 0..8
    /\ LastEvent = Ev("delay", CYCLE_DELAY, 0, TRUE)

AlignsBefore(k) ==
    Cardinality({j \in 1..(k - 1) : trace[j].op = "aligned_face_align"})

\* C17: the k-th call of aligned_face_align in a cycle is for detection k-1;
\* fr_recognize_face is called for a detection exactly when its alignment has
\* just succeeded, with the score of that detection; after a score above the
\* threshold nothing more is aligned or scored; and the scan ends only on such
\* a score or when every detection has been visited.
C17_ScanInOrder ==
    InCycle =>
        /\ \A k \in 1..Len(trace) :
              /\ trace[k].op = "aligned_face_align"
                    => /\ trace[k].a = AlignsBefore(k)
                       /\ trace[k].a < Len(net_boxes.box)
                       /\ trace[k].ok = net_boxes.box[trace[k].a + 1].alignOk
                       /\ trace[k].ok
                             => /\ k < Len(trace)
                                /\ trace[k + 1].op = "fr_recognize_face"
                       /\ (~trace[k].ok /\ k < Len(trace))
                             => trace[k + 1].op # "fr_recognize_face"
              /\ trace[k].op = "fr_recognize_face"
                    => /\ k > 1
                       /\ trace[k - 1] = Ev("aligned_face_align", trace[k].a, 0, TRUE)
                       /\ trace[k].b = net_boxes.box[trace[k].a + 1].score
                       /\ trace[k].b > MATCH_THRESHOLD
                             => \A j \in (k + 1)..Len(trace) :
                                   trace[j].op \notin {"aligned_face_align",
                                                       "fr_recognize_face"}
        /\ Called("aligned_face_free")
              => \/ \E k \in 1..Len(trace) :
                       trace[k].op = "fr_recognize_face" /\ trace[k].b > MATCH_THRESHOLD
                 \/ NumCalls(trace, "aligned_face_align") = Len(net_boxes.box)

\* the first detection does not align, the second is reached and matches
C17_Witness ==
    /\ CycleDone
    /\ Len(net_boxes.box) = 2
    /\ HasEvent(Ev("aligned_face_align", 0, 0, FALSE))
    /\ HasEvent(Ev("aligned_face_align", 1, 0, TRUE))
    /\ HasEvent(Ev("fr_recognize_face", 1, 90, TRUE))
    /\ ~Called("lcd:Access Denied")
    /\ face_recognized

\* the trace is that of loadAuthorizedFace(), which has returned
EnrollmentDone == pc = "setup_end"

\* C18: loadAuthorizedFace() never releases or uses a handle or buffer it does
\* not hold; when it has returned, the file, the byte buffer, the image matrix
\* and the box array it acquired have each been released; and when it returns
\* false the reference buffer, if it was allocated, has been freed and
\* authorized_face is NULL.
C18_EnrollmentReleases ==
    /\ \A f \in faults : f[2] \notin EnrollRes \cup {"authorized_face"}
    /\ Returned => \A k \in EnrollRes : res[k] # "held"
    /\ EnrollmentDone =>
          /\ HasEvent(Ev("SD.open", 0, 0, TRUE)) <=> res["file"] = "freed"
          /\ HasEvent(Ev("malloc", 0, 0, TRUE)) <=> res["buffer"] = "freed"
          /\ HasEvent(Ev("dl_matrix3du_alloc", 0, 0, TRUE)) <=> res["image"] = "freed"
          /\ (\E k \in 1..Len(trace) : trace[k].op = "face_detect" /\ trace[k].ok)
                <=> res["boxes"] = "freed"
          /\ (loadResult = "false" /\ HasEvent(Ev("aligned_face_alloc", 0, 0, TRUE)))
                => res["authorized_face"] = "freed"
    /\ loadResult = "false"
          => /\ authorized_face = "NULL"
             /\ res["authorized_face"] \in {"none", "freed"}

\* the reference buffer was allocated, the alignment failed
C18_Witness ==
    /\ EnrollmentDone
    /\ loadResult = "false"
    /\ HasEvent(Ev("aligned_face_align", 0, 0, FALSE))
    /\ \A k \in EnrollRes \cup {"authorized_face"} : res[k] = "freed"
    /\ authorized_face = "NULL"

\* C19: a cycle that returns after a failed capture or a failed image-matrix
\* allocation takes no decision and leaves attemptCount as it found it; the
\* counter a deciding cycle finds is the one the previous deciding cycle left,
\* however many cycles were skipped in between, so a denial that finds
\* MAX_ATTEMPTS - 1 after skipped cycles sends the alert and resets.
C19_SkipsKeepCount ==
    /\ (CycleDone /\ (CaptureFailed \/ MatrixAllocFailed))
          => /\ decision = "none"
             /\ attemptCount = countBefore
             /\ skippedBefore
    /\ \A k \in 1..(Len(history) - 1) : history[k + 1].before = history[k].after
    /\ (pc = "loop" /\ history # <<>>) => attemptCount = history[Len(history)].after
    /\ (CycleDone /\ decision = "Denied" /\ skippedBefore /\ countBefore = MAX_ATTEMPTS - 1)
          => (AlertFired /\ attemptCount = 0)

\* two denials, skipped cycles, a third denial: the alert has fired
C19_Witness ==
    /\ CycleDone
    /\ skippedBefore
    /\ Len(history) = MAX_ATTEMPTS
    /\ history[1].before = 0
    /\ \A m \in 1..MAX_ATTEMPTS : history[m].decision = "Denied"
    /\ decision = "Denied"
    /\ AlertFired
    /\ attemptCount = 0

\* C20: no telemetry call carries accessStatus = 1 with intruderAlert = 1;
\* intruderAlert is 1 and the e-mail is sent only in a cycle that is Denied;
\* and once a call with intruderAlert = 1 has been made attemptCount is 0.
C20_NoGrantedAlert ==
    InCycle =>
        /\ \A k \in 1..Len(trace) :
              trace[k].op = "sendToThingSpeak"
                 => /\ ~(trace[k].a = 1 /\ trace[k].b = 1)
                    /\ trace[k].b = 1 => (attemptCount = 0 /\ decision = "Denied")
        /\ ~(accessStatus = 1 /\ intruderAlert = 1)
        /\ (intruderAlert = 1 \/ AlertFired) => decision = "Denied"
        /\ pc \in {"telemetry", "release", "delay", "loop"} /\ intruderAlert = 1
              => attemptCount = 0

\* the record with intruderAlert = 1 is about to be sent
C20_Witness ==
    /\ pc = "telemetry"
    /\ intruderAlert = 1
    /\ accessStatus = 0
    /\ countBefore = MAX_ATTEMPTS - 1
    /\ attemptCount = 0

====
